---- MODULE Spec2Model ----
(***************************************************************************)
(* A model of the Operational Intent repository of the DSS CockroachDB     *)
(* store (pkg/scd/store/cockroach/operational_intents.go) and of the store *)
(* bootstrap and panic handler of the cockroach Store (store.go).          *)
(*                                                                         *)
(* The database is the table scd_operations (rows), the catalog of tables  *)
(* (schema) and the database clock.  Callers (Procs) run the repository    *)
(* methods one SQL statement at a time, either directly on the database    *)
(* (every statement its own implicit transaction) or inside a              *)
(* transactional scope (tx).                                               *)
(***************************************************************************)
EXTENDS Integers, Sequences, FiniteSets, TLC

(* ------------------------------ bounds -------------------------------- *)

\* The database clock stops handing out timestamps after MaxClock.
MaxClock == 4

\* Width of a cell identifier: the code's uint64/int64 scaled down.
CellBits == 3

(* ------------------------------ domains ------------------------------- *)

Procs == {"p1", "p2"}

Ids == {1, 2}

SubIds == {"s1", "s2"}

RECURSIVE TwoPow(_)
TwoPow(n) == IF n = 0 THEN 1 ELSE 2 * TwoPow(n - 1)

\* A cell identifier whose top bit is set: negative once stored as a signed integer.
TopCell == TwoPow(CellBits) - 1

\* An optional value (a nil-able pointer, a NULL-able column): {} or {v}.
None == {}

Some(v) == {v}

Val(o) == CHOOSE v \in o : TRUE

(* ----------------------- cell id conversions -------------------------- *)

\* A faulty conversion: the top bit of the cell id is dropped.
ToInt64Wrong(c) == c % TwoPow(CellBits - 1)

\* int64(cell): the unsigned cell id reinterpreted as a signed integer.

ToInt64(c) == IF c >= TwoPow(CellBits - 1) THEN c - TwoPow(CellBits) ELSE c

\* s2.CellID(uint64(cell)): the signed column value reinterpreted as unsigned.
ToCellID(i) == (i + TwoPow(CellBits)) % TwoPow(CellBits)

\* cids[i] = int64(cell) for every input cell, in order.
CidsOf(cells) == [i \in 1..Len(cells) |-> ToInt64(cells[i])]

\* The cells of a stored array, one per unnested element, in order.
CellUnionOf(cids) == [i \in 1..Len(cids) |-> ToCellID(cids[i])]

Range(s) == {s[i] : i \in 1..Len(s)}

(* ------------------------------ OVN ----------------------------------- *)

\* scdmodels.NewOVNFromTime(updatedAt, id): a deterministic, injective token.
NewOVNFromTime(t, id) == [t |-> t, id |-> id]

\* The empty OVN: no version token.
NoOVN == [t |-> 0, id |-> 0]

(* --------------------------- the schema ------------------------------- *)

operationFieldsWithIndices ==
  << "id", "owner", "version", "url", "altitude_lower", "altitude_upper",
     "starts_at", "ends_at", "subscription_id", "updated_at", "state", "cells" >>

\* The tables the Bootstrap statement creates, with their indexes and their
\* constraints: NOT NULL on cells, the CHECK on array_length(cells, 1), the
\* CHECK on starts_at and ends_at.
BootstrapTables ==
  [ subscriptions |->
      [ indexes |-> {"primary", "owner_idx", "cells_idx", "starts_at_idx", "ends_at_idx"},
        checks  |-> {"cells_not_null", "cells_not_empty", "starts_before_ends"} ],
    identification_service_areas |->
      [ indexes |-> {"primary", "owner_idx", "cells_idx", "starts_at_idx",
                     "ends_at_idx", "updated_at_idx"},
        checks  |-> {"cells_not_null", "cells_length_not_null", "starts_before_ends"} ] ]

\* The table the Operational Intent repository reads and writes, as its
\* statements use it: one row per id (the UPSERT replaces the row of the id).
\* No statement of the store creates it, so the store gives it no constraint
\* on cells or on the time bounds and no secondary index: it exists only where
\* it was created beforehand.
OperationsTable == [ indexes |-> {"primary"}, checks |-> {} ]

AllTables == [ t \in DOMAIN BootstrapTables \cup {"scd_operations"} |->
                 IF t = "scd_operations" THEN OperationsTable ELSE BootstrapTables[t] ]

Restrict(f, S) == [x \in S |-> f[x]]

EmptyFn == [x \in {} |-> x]

Put(f, k, v) == [x \in DOMAIN f \cup {k} |-> IF x = k THEN v ELSE f[x]]

Remove(f, k) == [x \in DOMAIN f \ {k} |-> f[x]]

\* The elements of a finite set of integers as a sequence in ascending order.
RECURSIVE Ascending(_)
Ascending(S) ==
  IF S = {} THEN << >>
  ELSE LET m == CHOOSE x \in S : \A y \in S : x <= y
       IN  << m >> \o Ascending(S \ {m})

(* ------------------------------ state --------------------------------- *)

VARIABLES
  schema,   \* the tables that exist, each with its indexes and checks
  rows,     \* the committed rows of scd_operations, by id
  clock,    \* the last timestamp the database handed out
  tx,       \* per caller: the transactional scope it has open, if any
  pc,       \* per caller: the repository method it is in the middle of
  local,    \* per caller: the local variables of that method
  ret,      \* per caller: what its last call returned
  written   \* history: per id, the Operational Intent last committed by an upsert

vars == << schema, rows, clock, tx, pc, local, ret, written >>

NoTx == [open |-> FALSE, ts |-> 0, writes |-> EmptyFn]

\* The argument of a call, by its kind: the version token an upsert presents,
\* the id of a get or a delete, the subscription of a dependents query, the
\* volume of a search; and, of a read, the failure of the backing store its
\* query met while its result rows were iterated.
NoArg == [ovn |-> NoOVN, id |-> 0, sub |-> "", v4d |-> << >>, fault |-> None]

ArgOVN(ovn) == [NoArg EXCEPT !.ovn = ovn]

ArgId(id) == [NoArg EXCEPT !.id = id]

ArgSub(sub) == [NoArg EXCEPT !.sub = sub]

ArgVolume(v4d) == [NoArg EXCEPT !.v4d = << v4d >>]

WithFault(arg, fault) == [arg EXCEPT !.fault = fault]

NoLocal == [payload |-> << >>, i |-> 0, cells |-> << >>, arg |-> NoArg]

\* What a call returned: the method, its error ("none": nil), the entities and
\* the ids it returned, and the argument it was called with.
\* For a scope left by a panic, ids are the rows the scope had written by then.
Result(op, err, ents, ids, arg, panicked) ==
  [op |-> op, err |-> err, ents |-> ents, ids |-> ids, arg |-> arg, panicked |-> panicked]

Ok(op) == Result(op, "none", << >>, << >>, NoArg, FALSE)

Err(op, err, arg) == Result(op, err, << >>, << >>, arg, FALSE)

\* stacktrace.Propagate(err, "Error in query: %s", query): the statement failed.
ErrQuery == "Error in query"

\* stacktrace.NewError("Could not delete Operation that does not exist")
ErrNotExist == "Could not delete Operation that does not exist"

\* dsserr.BadRequest
ErrBadRequest == "BadRequest"

\* stacktrace.Propagate(err, "Error in rows query result"): rows.Err() # nil.
ErrRows == "Error in rows query result"

\* What the rows.Next() loop of a query gets of the result rows found: all of
\* them (fault = None), or the first Val(fault) of them, after which the backing
\* store fails and rows.Next() returns false with rows.Err() set.
Delivered(found, fault) ==
  IF fault = None THEN found
  ELSE SubSeq(found, 1, IF Val(fault) < Len(found) THEN Val(fault) ELSE Len(found))

TableExists == "scd_operations" \in DOMAIN schema

(* ----------------------- the caller's Queryable ----------------------- *)

\* What a statement of caller p reads: the committed rows, under the writes of
\* p's own open transaction.
View(p) ==
  IF ~tx[p].open THEN rows
  ELSE LET w == tx[p].writes
           ids == { id \in DOMAIN rows \cup DOMAIN w :
                      IF id \in DOMAIN w THEN w[id] # << >> ELSE TRUE }
       IN  [ id \in ids |-> IF id \in DOMAIN w THEN w[id][1].row ELSE rows[id] ]

\* transaction_timestamp(): the start time of the statement's transaction: of the
\* caller's open transaction, or of the implicit one of a single statement.
TransactionTimestamp(p) == IF tx[p].open THEN tx[p].ts ELSE clock + 1

\* The history record of an upsert: the payload without its version token.
Payload(e) == [e EXCEPT !.OVN = NoOVN]

\* A faulty write: a row that exists is kept as it is (an insert that does
\* nothing on a conflict).
WriteRowIfAbsent(p, id, w) ==
  IF w # << >> /\ id \in DOMAIN View(p)
  THEN UNCHANGED << rows, clock, tx, written >>
  ELSE IF tx[p].open
  THEN /\ tx' = [tx EXCEPT ![p].writes = Put(@, id, w)]
       /\ UNCHANGED << rows, clock, written >>
  ELSE /\ rows' = IF w = << >> THEN Remove(rows, id) ELSE Put(rows, id, w[1].row)
       /\ written' = IF w = << >> THEN Remove(written, id) ELSE Put(written, id, w[1].e)
       /\ clock' = IF w = << >> THEN clock ELSE clock + 1
       /\ UNCHANGED tx

\* Caller p writes w (<< >>: delete, << [row, e] >>: upsert) to row id.
WriteRow(p, id, w) ==
  IF tx[p].open
  THEN /\ tx' = [tx EXCEPT ![p].writes = Put(@, id, w)]
       /\ UNCHANGED << rows, clock, written >>
  ELSE /\ rows' = IF w = << >> THEN Remove(rows, id) ELSE Put(rows, id, w[1].row)
       /\ written' = IF w = << >> THEN Remove(written, id) ELSE Put(written, id, w[1].e)
       /\ clock' = IF w = << >> THEN clock ELSE clock + 1
       /\ UNCHANGED tx

(* ------------------------ rows and entities --------------------------- *)

\* The row the UPSERT statement writes for operation e at transaction time ts.
UpsertRow(e, ts) ==
  [ id              |-> e.ID,
    owner           |-> e.Manager,
    version         |-> e.Version,
    url             |-> e.USSBaseURL,
    altitude_lower  |-> e.AltitudeLower,
    altitude_upper  |-> e.AltitudeUpper,
    starts_at       |-> e.StartTime,
    ends_at         |-> e.EndTime,
    subscription_id |-> e.SubscriptionID,
    updated_at      |-> ts,
    state           |-> e.State,
    cells           |-> CidsOf(e.Cells) ]

\* rows.Scan of one result row, with the OVN derived from updated_at and the id.
ScanRow(r) ==
  [ ID             |-> r.id,
    Manager        |-> r.owner,
    Version        |-> r.version,
    USSBaseURL     |-> r.url,
    AltitudeLower  |-> r.altitude_lower,
    AltitudeUpper  |-> r.altitude_upper,
    StartTime      |-> r.starts_at,
    EndTime        |-> r.ends_at,
    SubscriptionID |-> r.subscription_id,
    State          |-> r.state,
    Cells          |-> CellUnionOf(r.cells),
    OVN            |-> NewOVNFromTime(r.updated_at, r.id) ]

\* SELECT unnest(cells) FROM scd_operations WHERE id = $1, as a CellUnion.
UnnestCells(p, id) ==
  IF id \in DOMAIN View(p) THEN CellUnionOf(View(p)[id].cells) ELSE << >>

(* --------------------------- SQL predicates --------------------------- *)

\* a >= b and a <= b in SQL: NULL when either side is NULL.
SqlGe(a, b) == IF a = None \/ b = None THEN None ELSE Some(Val(a) >= Val(b))

SqlLe(a, b) == IF a = None \/ b = None THEN None ELSE Some(Val(a) <= Val(b))

\* COALESCE(x, d)
Coalesce(x, d) == IF x = None THEN d ELSE Val(x)

\* cells && $1: the two arrays have an element in common.
ArrayOverlap(a, b) == Range(a) \cap Range(b) # {}

\* a > b and a < b in SQL.
SqlGt(a, b) == IF a = None \/ b = None THEN None ELSE Some(Val(a) > Val(b))

SqlLt(a, b) == IF a = None \/ b = None THEN None ELSE Some(Val(a) < Val(b))

\* A faulty WHERE clause: the bounds compared strictly.
IntersectsVolumeStrict(r, cids, altLo, altHi, startTime, endTime) ==
  /\ ArrayOverlap(r.cells, cids)
  /\ Coalesce(SqlGt(r.altitude_upper, altLo), TRUE)
  /\ Coalesce(SqlLt(r.altitude_lower, altHi), TRUE)
  /\ Coalesce(SqlGt(r.ends_at, startTime), TRUE)
  /\ Coalesce(SqlLt(r.starts_at, endTime), TRUE)

\* The WHERE clause of operationsIntersectingVolumeQuery for row r.
IntersectsVolume(r, cids, altLo, altHi, startTime, endTime) ==
  /\ ArrayOverlap(r.cells, cids)
  /\ Coalesce(SqlGe(r.altitude_upper, altLo), TRUE)
  /\ Coalesce(SqlLe(r.altitude_lower, altHi), TRUE)
  /\ Coalesce(SqlGe(r.ends_at, startTime), TRUE)
  /\ Coalesce(SqlLe(r.starts_at, endTime), TRUE)

(* -------------------------- table constraints ------------------------- *)

\* a AND b, a OR b in SQL, on truth values that may be NULL.
SqlAnd(a, b) ==
  IF a = Some(FALSE) \/ b = Some(FALSE) THEN Some(FALSE)
  ELSE IF a = None \/ b = None THEN None ELSE Some(TRUE)

SqlOr(a, b) ==
  IF a = Some(TRUE) \/ b = Some(TRUE) THEN Some(TRUE)
  ELSE IF a = None \/ b = None THEN None ELSE Some(FALSE)

\* x IS NULL, x IS NOT NULL: never NULL themselves.
SqlIsNull(x) == Some(x = None)

SqlIsNotNull(x) == Some(x # None)

\* array_length(cells, 1): NULL for a NULL array and for an array without elements.
ArrayLength(cells) ==
  IF cells = None THEN None
  ELSE IF Len(Val(cells)) = 0 THEN None ELSE Some(Len(Val(cells)))

\* A CHECK constraint rejects the row when its expression is false; a NULL passes.
CheckPasses(v) == v # Some(FALSE)

\* cells INT64[] NOT NULL
CellsNotNull(cells) == cells # None

\* CHECK (array_length(cells, 1) > 0 AND array_length(cells, 1) IS NOT NULL)
CellsNotEmpty(cells) ==
  CheckPasses(SqlAnd(SqlGt(ArrayLength(cells), Some(0)), SqlIsNotNull(ArrayLength(cells))))

\* CHECK (array_length(cells, 1) IS NOT NULL)
CellsLengthNotNull(cells) == CheckPasses(SqlIsNotNull(ArrayLength(cells)))

\* CHECK (starts_at IS NULL OR ends_at IS NULL OR starts_at < ends_at)
StartsBeforeEnds(starts_at, ends_at) ==
  CheckPasses(SqlOr(SqlOr(SqlIsNull(starts_at), SqlIsNull(ends_at)), SqlLt(starts_at, ends_at)))

\* The constraint of that name holds of a row with these columns.
ConstraintHolds(name, cells, starts_at, ends_at) ==
  CASE name = "cells_not_null"        -> CellsNotNull(cells)
    [] name = "cells_not_empty"       -> CellsNotEmpty(cells)
    [] name = "cells_length_not_null" -> CellsLengthNotNull(cells)
    [] name = "starts_before_ends"    -> StartsBeforeEnds(starts_at, ends_at)

\* The table admits a row with these columns: every constraint of it holds.
RowAdmitted(table, cells, starts_at, ends_at) ==
  \A name \in table.checks : ConstraintHolds(name, cells, starts_at, ends_at)

(* ------------------------------ Init ---------------------------------- *)

\* The store is opened on a database that holds any of the tables and no rows.
Init ==
  /\ schema \in { Restrict(AllTables, S) : S \in SUBSET DOMAIN AllTables }
  /\ rows = EmptyFn
  /\ written = EmptyFn
  /\ clock = 0
  /\ tx = [p \in Procs |-> NoTx]
  /\ pc = [p \in Procs |-> "idle"]
  /\ local = [p \in Procs |-> NoLocal]
  /\ ret = [p \in Procs |-> Ok("init")]

\* A caller may start a repository call: it is in no call, and inside a scope
\* only while no call of the scope has failed.
CanStart(p) == pc[p] = "idle" /\ (tx[p].open => ret[p].err = "none")

\* A call that returns at once.
Return(p, r) ==
  /\ ret' = [ret EXCEPT ![p] = r]
  /\ pc' = [pc EXCEPT ![p] = "idle"]
  /\ local' = [local EXCEPT ![p] = NoLocal]

\* fetchOperationalIntents has scanned the result rows into payload and goes on
\* to populate the cells of each, one query per operation.
Fetched(p, op, payload, cells, arg) ==
  IF payload = << >>
  THEN Return(p, Result(op, "none", << >>, << >>, arg, FALSE))
  ELSE /\ pc' = [pc EXCEPT ![p] = op]
       /\ local' = [local EXCEPT ![p] =
                      [payload |-> payload, i |-> 1, cells |-> cells, arg |-> arg]]
       /\ ret' = [ret EXCEPT ![p] = Ok("running")]

\* fetchOperationalIntents on the result rows found: the rows delivered are
\* scanned, rows.Err() is looked at, and the cells are populated.
fetchOperationalIntents(p, op, found, fault, cells, arg) ==
  IF fault # None
  THEN Return(p, Err(op, ErrRows, arg))
  ELSE LET got == Delivered(found, fault)
       IN  Fetched(p, op, [k \in 1..Len(got) |-> ScanRow(got[k])], cells, arg)

(* ------------------------------ upsert -------------------------------- *)

\* UpsertOperationalIntent, the UPSERT ... RETURNING statement.  The version
\* token the operation carries (operation.OVN) is not a parameter of the
\* statement.  The cells are written as an array of len(operation.Cells)
\* elements, empty for a nil or empty cell set and never NULL.  The method
\* compares neither the cells nor the time bounds with anything: the row is
\* written as it is given.
UpsertOperationalIntent(p, operation) ==
  /\ CanStart(p)
  /\ IF ~TableExists
     THEN /\ Return(p, Err("upsert", ErrQuery, ArgOVN(operation.OVN)))
          /\ UNCHANGED << schema, rows, clock, tx, written >>
     ELSE /\ tx[p].open \/ clock < MaxClock
          /\ LET row == UpsertRow(operation, TransactionTimestamp(p))
             IN  /\ WriteRow(p, operation.ID, << [row |-> row, e |-> Payload(operation)] >>)
                 /\ fetchOperationalIntents(p, "upsert", << row >>, None,
                                            operation.Cells, ArgOVN(operation.OVN))
          /\ UNCHANGED schema

\* A faulty return of the upsert: the operation handed in is returned, with
\* the version token it came with.
populateReturningInput(p, fault) ==
  /\ pc[p] \in {"upsert", "get", "search"}
  /\ LET i == local[p].i
         o == local[p].payload[i]
         payload == [local[p].payload EXCEPT ![i].Cells = UnnestCells(p, o.ID)]
     IN  IF fault # None
         THEN Return(p, Err(pc[p], ErrRows, WithFault(local[p].arg, fault)))
         ELSE IF i < Len(payload)
         THEN /\ local' = [local EXCEPT ![p].payload = payload, ![p].i = i + 1]
              /\ UNCHANGED << pc, ret >>
         ELSE IF pc[p] = "upsert"
              THEN Return(p, Result("upsert", "none",
                                    << [payload[1] EXCEPT !.Cells = local[p].cells,
                                                          !.OVN = local[p].arg.ovn] >>,
                                    << >>, local[p].arg, FALSE))
              ELSE Return(p, Result(pc[p], "none", payload, << >>, local[p].arg, FALSE))
  /\ UNCHANGED << schema, rows, clock, tx, written >>

\* populateOperationalIntentCells for payload[i], and, after the last one, the
\* return of the method that called fetchOperationalIntents.  A failure of the
\* backing store while the cells are iterated ends the method with the error.
populateOperationalIntentCells(p, fault) ==
  /\ pc[p] \in {"upsert", "get", "search"}
  /\ LET i == local[p].i
         o == local[p].payload[i]
         payload == [local[p].payload EXCEPT ![i].Cells = UnnestCells(p, o.ID)]
     IN  IF fault # None
         THEN Return(p, Err(pc[p], ErrRows, WithFault(local[p].arg, fault)))
         ELSE IF i < Len(payload)
         THEN /\ local' = [local EXCEPT ![p].payload = payload, ![p].i = i + 1]
              /\ UNCHANGED << pc, ret >>
         ELSE IF pc[p] = "upsert"
              THEN \* operation.Cells = cells
                   Return(p, Result("upsert", "none",
                                    << [payload[1] EXCEPT !.Cells = local[p].cells] >>,
                                    << >>, local[p].arg, FALSE))
              ELSE Return(p, Result(pc[p], "none", payload, << >>, local[p].arg, FALSE))
  /\ UNCHANGED << schema, rows, clock, tx, written >>

(* -------------------------------- get --------------------------------- *)

\* A faulty get: no row found is a pointer to an empty operation, not nil.
GetZeroValue(p, id, fault) ==
  /\ CanStart(p)
  /\ IF ~TableExists
     THEN Return(p, Err("get", ErrQuery, ArgId(id)))
     ELSE IF id \notin DOMAIN View(p) /\ fault = None
          THEN LET zero == [ ID |-> id, Manager |-> "", Version |-> 0, USSBaseURL |-> "",
                             AltitudeLower |-> None, AltitudeUpper |-> None,
                             StartTime |-> None, EndTime |-> None,
                             SubscriptionID |-> None, State |-> "",
                             Cells |-> << >>, OVN |-> NoOVN ]
               IN  Return(p, Result("get", "none", << zero >>, << >>, ArgId(id), FALSE))
          ELSE fetchOperationalIntents(p, "get",
                                       IF id \in DOMAIN View(p) THEN << View(p)[id] >> ELSE << >>,
                                       fault, << >>, WithFault(ArgId(id), fault))
  /\ UNCHANGED << schema, rows, clock, tx, written >>

\* GetOperationalIntent: fetchOperationByID, SELECT ... WHERE id = $1, through
\* fetchOperationalIntent: no row found is no operation and no error.
GetOperationalIntent(p, id, fault) ==
  /\ CanStart(p)
  /\ IF ~TableExists
     THEN Return(p, Err("get", ErrQuery, ArgId(id)))
     ELSE fetchOperationalIntents(p, "get",
                                  IF id \in DOMAIN View(p) THEN << View(p)[id] >> ELSE << >>,
                                  fault, << >>, WithFault(ArgId(id), fault))
  /\ UNCHANGED << schema, rows, clock, tx, written >>

(* ------------------------------- delete ------------------------------- *)

\* A faulty delete: RowsAffected is not looked at.
DeleteWithoutCheck(p, id) ==
  /\ CanStart(p)
  /\ IF ~TableExists
     THEN /\ Return(p, Err("delete", ErrQuery, ArgId(id)))
          /\ UNCHANGED << rows, clock, tx, written >>
     ELSE /\ WriteRow(p, id, << >>)
          /\ Return(p, Result("delete", "none", << >>, << >>, ArgId(id), FALSE))
  /\ UNCHANGED schema

\* DeleteOperationalIntent: DELETE ... WHERE id = $1, then RowsAffected.
DeleteOperationalIntent(p, id) ==
  /\ CanStart(p)
  /\ IF ~TableExists
     THEN /\ Return(p, Err("delete", ErrQuery, ArgId(id)))
          /\ UNCHANGED << rows, clock, tx, written >>
     ELSE IF id \notin DOMAIN View(p)
          THEN /\ Return(p, Err("delete", ErrNotExist, ArgId(id)))
               /\ UNCHANGED << rows, clock, tx, written >>
          ELSE /\ WriteRow(p, id, << >>)
               /\ Return(p, Result("delete", "none", << >>, << >>, ArgId(id), FALSE))
  /\ UNCHANGED schema

(* ------------------------------- search ------------------------------- *)

\* A faulty search: a volume without footprint is searched for without filter.
SearchUnfilteredOnMissing(p, v4d, fault) ==
  /\ CanStart(p)
  /\ IF ~TableExists
     THEN Return(p, Err("search", ErrQuery, ArgVolume(v4d)))
     ELSE LET all == Ascending(DOMAIN View(p))
              hit == IF v4d.SpatialVolume = None THEN all
                     ELSE IF Val(v4d.SpatialVolume).Footprint = None THEN all
                     ELSE LET vol == Val(v4d.SpatialVolume)
                              cids == CidsOf(Val(vol.Footprint).cells)
                          IN  Ascending({ id \in DOMAIN View(p) :
                                IntersectsVolume(View(p)[id], cids, vol.AltitudeLo,
                                                 vol.AltitudeHi, v4d.StartTime, v4d.EndTime) })
          IN  fetchOperationalIntents(p, "search", [k \in 1..Len(hit) |-> View(p)[hit[k]]],
                                      fault, << >>, WithFault(ArgVolume(v4d), fault))
  /\ UNCHANGED << schema, rows, clock, tx, written >>

\* searchOperationalIntents for the volume v4d.
SearchOperationalIntents(p, v4d, fault) ==
  /\ CanStart(p)
  /\ IF v4d.SpatialVolume = None \/ Val(v4d.SpatialVolume).Footprint = None
     THEN Return(p, Err("search", ErrBadRequest, ArgVolume(v4d)))
     ELSE LET vol == Val(v4d.SpatialVolume)
              covering == Val(vol.Footprint)
          IN  IF covering.err
              THEN Return(p, Err("search", ErrBadRequest, ArgVolume(v4d)))
              ELSE IF Len(covering.cells) = 0
              THEN Return(p, Err("search", ErrBadRequest, ArgVolume(v4d)))
              ELSE IF ~TableExists
              THEN Return(p, Err("search", ErrQuery, ArgVolume(v4d)))
              ELSE LET cids == CidsOf(covering.cells)
                       hit == { id \in DOMAIN View(p) :
                                  IntersectsVolume(View(p)[id], cids, vol.AltitudeLo,
                                                   vol.AltitudeHi, v4d.StartTime, v4d.EndTime) }
                       found == Ascending(hit)
                   IN  fetchOperationalIntents(p, "search",
                                               [k \in 1..Len(found) |-> View(p)[found[k]]],
                                               fault, << >>,
                                               WithFault(ArgVolume(v4d), fault))
  /\ UNCHANGED << schema, rows, clock, tx, written >>

(* ----------------------------- dependents ----------------------------- *)

\* A faulty dependents query: rows with no subscription match too.
DependentsOrUnlinked(p, subscriptionID, fault) ==
  /\ CanStart(p)
  /\ IF ~TableExists
     THEN Return(p, Err("dependents", ErrQuery, ArgSub(subscriptionID)))
     ELSE Return(p, Result("dependents", "none", << >>,
                           Delivered(Ascending({ id \in DOMAIN View(p) :
                                         View(p)[id].subscription_id \subseteq {subscriptionID} }), fault),
                           WithFault(ArgSub(subscriptionID), fault), FALSE))
  /\ UNCHANGED << schema, rows, clock, tx, written >>

\* GetDependentOperationalIntents: SELECT id ... WHERE subscription_id = $1.
\* The ids delivered are returned; rows.Err() is not looked at.
GetDependentOperationalIntents(p, subscriptionID, fault) ==
  /\ CanStart(p)
  /\ IF ~TableExists
     THEN Return(p, Err("dependents", ErrQuery, ArgSub(subscriptionID)))
     ELSE Return(p, Result("dependents", "none", << >>,
                           Delivered(Ascending({ id \in DOMAIN View(p) :
                                         View(p)[id].subscription_id = Some(subscriptionID) }), fault),
                           WithFault(ArgSub(subscriptionID), fault), FALSE))
  /\ UNCHANGED << schema, rows, clock, tx, written >>

(* ------------------------------ bootstrap ----------------------------- *)

\* A faulty statement, CREATE TABLE name (...): fails when the table exists.
CreateTable(s, name, def) ==
  IF name \in DOMAIN s THEN [ok |-> FALSE, schema |-> s]
  ELSE [ok |-> TRUE, schema |-> Put(s, name, def)]

\* CREATE TABLE IF NOT EXISTS name (...): an existing table is left as it is.
CreateTableIfNotExists(s, name, def) ==
  IF name \in DOMAIN s THEN [ok |-> TRUE, schema |-> s]
  ELSE [ok |-> TRUE, schema |-> Put(s, name, def)]

\* The two statements of Bootstrap's query, in order; the first failure ends it.
BootstrapQuery(s) ==
  LET s1 == CreateTableIfNotExists(s, "subscriptions", BootstrapTables.subscriptions)
  IN  IF ~s1.ok THEN s1
      ELSE CreateTableIfNotExists(s1.schema, "identification_service_areas",
                                  BootstrapTables.identification_service_areas)

\* Store.Bootstrap: runs on the database itself, outside any scope.
Bootstrap(p) ==
  /\ pc[p] = "idle"
  /\ ~tx[p].open
  /\ LET r == BootstrapQuery(schema)
     IN  /\ schema' = r.schema
         /\ Return(p, IF r.ok THEN Ok("bootstrap") ELSE Err("bootstrap", ErrQuery, NoArg))
  /\ UNCHANGED << rows, clock, tx, written >>

(* ----------------------- transactional scopes ------------------------- *)

\* A faulty handler: the panic is recovered and the transaction left open.
recoverWithoutRollback(panicking) == [rollback |-> FALSE, repanic |-> FALSE]

\* What the deferred recoverRollbackRepanic does when the scope's function is
\* left: with a panic in flight (recover() # nil) it rolls the transaction back;
\* the recovered panic is not raised again.
recoverRollbackRepanic(panicking) ==
  IF panicking THEN [rollback |-> TRUE, repanic |-> FALSE]
  ELSE [rollback |-> FALSE, repanic |-> FALSE]

\* The caller opens a scope: a transaction that starts now.
Begin(p) ==
  /\ pc[p] = "idle"
  /\ ~tx[p].open
  /\ clock < MaxClock
  /\ clock' = clock + 1
  /\ tx' = [tx EXCEPT ![p] = [open |-> TRUE, ts |-> clock + 1, writes |-> EmptyFn]]
  /\ ret' = [ret EXCEPT ![p] = Ok("begin")]
  /\ UNCHANGED << schema, rows, pc, local, written >>

\* The committed table once the writes w of a transaction are applied.
Apply(f, w, field) ==
  [ id \in { i \in DOMAIN f \cup DOMAIN w : IF i \in DOMAIN w THEN w[i] # << >> ELSE TRUE } |->
      IF id \in DOMAIN w THEN w[id][1][field] ELSE f[id] ]

\* The scope's function returned without error: the transaction commits.
Commit(p) ==
  /\ pc[p] = "idle"
  /\ tx[p].open
  /\ ret[p].err = "none"
  /\ rows' = Apply(rows, tx[p].writes, "row")
  /\ written' = Apply(written, tx[p].writes, "e")
  /\ tx' = [tx EXCEPT ![p] = NoTx]
  /\ ret' = [ret EXCEPT ![p] = [Ok("commit") EXCEPT !.panicked = recoverRollbackRepanic(FALSE).repanic]]
  /\ UNCHANGED << schema, clock, pc, local >>

\* A call of the scope failed: the transaction is rolled back and the error
\* is returned as it is.
Rollback(p) ==
  /\ pc[p] = "idle"
  /\ tx[p].open
  /\ ret[p].err # "none"
  /\ tx' = [tx EXCEPT ![p] = NoTx]
  /\ UNCHANGED << schema, rows, clock, pc, local, ret, written >>

\* A panic inside the scope, at any point of it: the deferred handler runs and
\* the scope's function is left.
Panic(p) ==
  /\ tx[p].open
  /\ LET h == recoverRollbackRepanic(TRUE)
     IN  /\ tx' = IF h.rollback THEN [tx EXCEPT ![p] = NoTx] ELSE tx
         /\ Return(p, Result("panic", "none", << >>, Ascending(DOMAIN tx[p].writes),
                          NoArg, h.repanic))
  /\ UNCHANGED << schema, rows, clock, written >>

(* ------------------------------ inputs -------------------------------- *)

\* The Operational Intents (scdmodels.OperationalIntent) with fields drawn
\* from the given sets, carrying no version token.
OperationalIntents(ids, managers, versions, urls, altLos, altHis, starts, ends, subs, states, cells) ==
  [ ID : ids, Manager : managers, Version : versions, USSBaseURL : urls,
    AltitudeLower : altLos, AltitudeUpper : altHis,
    StartTime : starts, EndTime : ends,
    SubscriptionID : subs, State : states, Cells : cells, OVN : {NoOVN} ]

\* The Operational Intents the callers of Spec write.
Operations ==
  OperationalIntents(Ids, {"uss1"}, {1}, {"u1"}, {None}, {None}, {None}, {None},
                     {None, Some("s1")}, {"Accepted"}, {<< 1, TopCell >>})

\* A footprint, by what CalculateCovering returns for it.
Footprint(cells, err) == [cells |-> cells, err |-> err]

Volume4D(footprint, altLo, altHi, startTime, endTime) ==
  [ SpatialVolume |-> Some([Footprint |-> footprint, AltitudeLo |-> altLo, AltitudeHi |-> altHi]),
    StartTime |-> startTime, EndTime |-> endTime ]

NoVolume == [ SpatialVolume |-> None, StartTime |-> None, EndTime |-> None ]

\* The volumes the callers of Spec search.
Volumes ==
  { Volume4D(Some(Footprint(<< TopCell >>, FALSE)), None, None, None, None),
    Volume4D(None, None, None, None, None),
    NoVolume }

\* The version tokens caller p can present for id: none, or the OVN of an
\* entity of that id its last call returned.
KnownOVNs(p, id) ==
  {NoOVN} \cup { ret[p].ents[k].OVN : k \in { j \in 1..Len(ret[p].ents) : ret[p].ents[j].ID = id } }

(* ------------------------------- Next --------------------------------- *)

\* One caller at a time uses the store, with or without a scope.
Next ==
  \E p \in {"p1"} :
    \/ Bootstrap(p)
    \/ \E e \in Operations : \E tok \in KnownOVNs(p, e.ID) :
         UpsertOperationalIntent(p, [e EXCEPT !.OVN = tok])
    \/ populateOperationalIntentCells(p, None)
    \/ \E id \in Ids : GetOperationalIntent(p, id, None)
    \/ \E id \in Ids : DeleteOperationalIntent(p, id)
    \/ \E v4d \in Volumes : SearchOperationalIntents(p, v4d, None)
    \/ \E s \in SubIds : GetDependentOperationalIntents(p, s, None)
    \/ Begin(p)
    \/ Commit(p)
    \/ Rollback(p)
    \/ Panic(p)

Spec == Init /\ [][Next]_vars

(* ------------------------- concurrent callers ------------------------- *)

\* The Operational Intents two concurrent writers write to one id.
ConcurrentOperations ==
  OperationalIntents({1}, {"uss1"}, {1}, {"u1", "u2"}, {None}, {None}, {None}, {None},
                     {None}, {"Accepted"}, {<< 1, TopCell >>})

InitConcurrent ==
  /\ Init
  /\ schema = AllTables

\* Two callers use the store at once, each statement of each an atomic step.
NextConcurrent ==
  \E p \in Procs :
    \/ \E e \in ConcurrentOperations : \E tok \in KnownOVNs(p, e.ID) :
         UpsertOperationalIntent(p, [e EXCEPT !.OVN = tok])
    \/ populateOperationalIntentCells(p, None)
    \/ GetOperationalIntent(p, 1, None)
    \/ DeleteOperationalIntent(p, 1)
    \/ Begin(p)
    \/ Commit(p)
    \/ Rollback(p)

SpecConcurrent == InitConcurrent /\ [][NextConcurrent]_vars

(* --------------------------- round trips ------------------------------ *)

\* The Operational Intents of the round trip: every field takes two values or
\* more, the cells are empty, one or several, in either order.
RoundTripOperations ==
  OperationalIntents({1}, {"uss1", "uss2"}, {1}, {"u1", "u2"},
                     {Some(0)}, {Some(5)}, {Some(1)}, {Some(2)},
                     {None, Some("s1")}, {"Accepted", "Activated"}, {<< 1 >>})
  \cup
  OperationalIntents({1}, {"uss1"}, {1}, {"u1"},
                     {None, Some(0)}, {None, Some(5)}, {None, Some(1)}, {None, Some(2)},
                     {None}, {"Accepted"}, {<< >>, << 1 >>, << TopCell, 2 >>})

InitRoundTrip ==
  /\ Init
  /\ TableExists

\* One caller writes, reads and deletes one id, every statement on its own.
NextRoundTrip ==
  \E p \in {"p1"} :
    \/ \E e \in RoundTripOperations : UpsertOperationalIntent(p, e)
    \/ populateOperationalIntentCells(p, None)
    \/ GetOperationalIntent(p, 1, None)
    \/ DeleteOperationalIntent(p, 1)

SpecRoundTrip == InitRoundTrip /\ [][NextRoundTrip]_vars

(* ------------------------------ searches ------------------------------ *)

\* The stored Operational Intents a search runs over: id 1 with every
\* combination of bounds and cells, id 2 unbounded or bounded.
SearchOperations(id) ==
  IF id = 1
  THEN OperationalIntents({1}, {"uss1"}, {1}, {"u1"},
                          {None, Some(1)}, {None, Some(5)}, {None, Some(1)}, {None, Some(2)},
                          {None}, {"Accepted"}, {<< 1 >>, << 2, TopCell >>})
  ELSE OperationalIntents({id}, {"uss1"}, {1}, {"u1"},
                          {None, Some(1)}, {None}, {None}, {None, Some(2)},
                          {None}, {"Accepted"}, {<< 1, TopCell >>})

\* The volumes searched: cells that meet the stored ones or not, bounds absent,
\* on the boundary of the stored bounds and one past it.
SearchVolumes ==
  { Volume4D(Some(Footprint(cells, FALSE)), altLo, altHi, startTime, endTime) :
      cells \in {<< 1 >>, << TopCell, 3 >>, << 3 >>},
      altLo \in {None, Some(5), Some(6)}, altHi \in {None, Some(1), Some(0)},
      startTime \in {None, Some(2), Some(3)}, endTime \in {None, Some(1), Some(0)} }

\* The table after the upserts es (by id), committed at times 1, 2, ...
StoreOf(es) == [ id \in DOMAIN es |-> UpsertRow(es[id], id) ]

InitSearch ==
  /\ schema = AllTables
  /\ \E S \in SUBSET Ids :
       \E es \in [S -> UNION { SearchOperations(id) : id \in Ids }] :
         /\ \A id \in S : es[id].ID = id
         /\ rows = StoreOf(es)
         /\ written = es
  /\ clock = Cardinality(Ids)
  /\ tx = [p \in Procs |-> NoTx]
  /\ pc = [p \in Procs |-> "idle"]
  /\ local = [p \in Procs |-> NoLocal]
  /\ ret = [p \in Procs |-> Ok("init")]

\* One caller runs one search over the table as it is.
NextSearch ==
  \E p \in {"p1"} :
    \/ /\ ret[p].op = "init"
       /\ \E v4d \in SearchVolumes : SearchOperationalIntents(p, v4d, None)
    \/ populateOperationalIntentCells(p, None)

SpecSearch == InitSearch /\ [][NextSearch]_vars

(* -------------------- reads over a failing store ---------------------- *)

\* The volumes of the reads: those of Spec, one whose covering is empty and
\* one whose covering fails.
ReadVolumes ==
  Volumes \cup { Volume4D(Some(Footprint(<< >>, FALSE)), None, None, None, None),
                 Volume4D(Some(Footprint(<< >>, TRUE)), None, None, None, None) }

\* The failures of the backing store during an iteration: none, at once, or
\* after the first row.
Faults == {None, Some(0), Some(1)}

\* The store holds the table with any rows of Operations, or lacks the table.
InitReads ==
  /\ \/ /\ schema = AllTables
        /\ \E S \in SUBSET Ids :
             \E es \in [S -> Operations] :
               /\ \A id \in S : es[id].ID = id
               /\ rows = StoreOf(es)
               /\ written = es
     \/ /\ schema = Restrict(AllTables, DOMAIN BootstrapTables)
        /\ rows = EmptyFn
        /\ written = EmptyFn
  /\ clock = Cardinality(Ids)
  /\ tx = [p \in Procs |-> NoTx]
  /\ pc = [p \in Procs |-> "idle"]
  /\ local = [p \in Procs |-> NoLocal]
  /\ ret = [p \in Procs |-> Ok("init")]

\* One caller reads the table as it is; any iteration may fail.
NextReads ==
  \E p \in {"p1"} : \E fault \in Faults :
    \/ \E id \in Ids : GetOperationalIntent(p, id, fault)
    \/ \E v4d \in ReadVolumes : SearchOperationalIntents(p, v4d, fault)
    \/ \E s \in SubIds : GetDependentOperationalIntents(p, s, fault)
    \/ populateOperationalIntentCells(p, fault)

SpecReads == InitReads /\ [][NextReads]_vars

(* -------------------------- constrained rows -------------------------- *)

\* The Operational Intents written against the constraint on cells: a cell set
\* that is empty (or nil), of one cell, of two.
CellsOperations ==
  OperationalIntents({1}, {"uss1"}, {1}, {"u1", "u2"}, {None}, {None}, {None}, {None},
                     {None}, {"Accepted"}, {<< >>, << 1 >>, << 1, TopCell >>})

\* The Operational Intents written against the constraint on the time bounds:
\* each bound absent or present, starts_at before, at and after ends_at.
TimesOperations ==
  OperationalIntents({1}, {"uss1"}, {1}, {"u1"}, {None}, {None},
                     {None, Some(1), Some(2)}, {None, Some(1), Some(2)},
                     {None}, {"Accepted"}, {<< 1 >>})

\* One caller bootstraps the store and writes, reads and deletes one id.
NextCells ==
  \E p \in {"p1"} :
    \/ Bootstrap(p)
    \/ \E e \in CellsOperations : UpsertOperationalIntent(p, e)
    \/ populateOperationalIntentCells(p, None)
    \/ GetOperationalIntent(p, 1, None)
    \/ DeleteOperationalIntent(p, 1)

SpecCells == Init /\ [][NextCells]_vars

NextTimes ==
  \E p \in {"p1"} :
    \/ Bootstrap(p)
    \/ \E e \in TimesOperations : UpsertOperationalIntent(p, e)
    \/ populateOperationalIntentCells(p, None)
    \/ GetOperationalIntent(p, 1, None)
    \/ DeleteOperationalIntent(p, 1)

SpecTimes == Init /\ [][NextTimes]_vars

(* ====================================================================== *)
(*                               Claims                                   *)
(* ====================================================================== *)

\* The step in which caller p runs the UPSERT statement.
UpsertStep(p) == pc[p] = "idle" /\ pc'[p] = "upsert"

\* The id the UPSERT statement of that step wrote, and the token it presented.
UpsertId(p) == local'[p].payload[1].ID

UpsertToken(p) == local'[p].arg.ovn

\* The OVN of the row of id as caller p reads it (NoOVN: no such row).
StoredOVN(p, id) ==
  IF id \in DOMAIN View(p) THEN NewOVNFromTime(View(p)[id].updated_at, id) ELSE NoOVN

\* C1: an upsert that presents a version token other than the OVN of the stored
\* row of its id, or for an id with no stored row, fails with VersionConflict
\* and leaves the stored rows as they are.
C1_StaleTokenRejected ==
  [][ \A p \in Procs :
        ( /\ UpsertStep(p)
          /\ UpsertToken(p) # NoOVN
          /\ UpsertToken(p) # StoredOVN(p, UpsertId(p)) )
        => ( /\ ret'[p].op = "upsert"
             /\ ret'[p].err = "VersionConflict"
             /\ rows' = rows
             /\ tx' = tx ) ]_vars

\* C2: when two callers each finish an upsert of the same id presenting the
\* same version token, at most one of them succeeded and the other one failed
\* with VersionConflict.
C2_OneWriterWins ==
  \A p, q \in Procs :
    ( /\ p # q
      /\ ret[p].op = "upsert" /\ ret[q].op = "upsert"
      /\ ret[p].arg.ovn # NoOVN
      /\ ret[p].arg.ovn = ret[q].arg.ovn
      /\ ret[p].err = "none" )
    => ret[q].err = "VersionConflict"

\* C3: a get that follows the upsert of an Operational Intent E with a non-empty
\* cell set returns one entity whose id, manager, url, altitude bounds, time
\* bounds, subscription and state are those of E and whose cells are E's cells,
\* as a set, and not empty.
C3_UpsertThenGet ==
  \A p \in Procs :
    ( /\ ret[p].op = "get" /\ ret[p].err = "none"
      /\ ret[p].arg.id \in DOMAIN written
      /\ written[ret[p].arg.id].Cells # << >> )
    => /\ Len(ret[p].ents) = 1
       /\ LET E == written[ret[p].arg.id]
              o == ret[p].ents[1]
          IN  /\ o.ID = E.ID
              /\ o.Manager = E.Manager
              /\ o.USSBaseURL = E.USSBaseURL
              /\ o.AltitudeLower = E.AltitudeLower
              /\ o.AltitudeUpper = E.AltitudeUpper
              /\ o.StartTime = E.StartTime
              /\ o.EndTime = E.EndTime
              /\ o.SubscriptionID = E.SubscriptionID
              /\ o.State = E.State
              /\ Range(o.Cells) = Range(E.Cells)
              /\ Range(o.Cells) # {}

\* The get of C3 happened: an entity with a bound of every kind, a subscription
\* and a cell whose top bit is set came back.
C3_Witness ==
  /\ ret["p1"].op = "get" /\ ret["p1"].err = "none"
  /\ Len(ret["p1"].ents) = 1
  /\ TopCell \in Range(ret["p1"].ents[1].Cells)
  /\ ret["p1"].ents[1].AltitudeLower # None
  /\ ret["p1"].ents[1].EndTime # None

\* The matching rule of the search, on the stored Operational Intent e and the
\* searched volume: an absent bound, of the entity or of the volume, constrains
\* nothing.
Matches(e, v4d) ==
  LET vol == Val(v4d.SpatialVolume)
  IN  /\ Range(e.Cells) \cap Range(Val(vol.Footprint).cells) # {}
      /\ e.AltitudeUpper = None \/ vol.AltitudeLo = None
           \/ Val(vol.AltitudeLo) <= Val(e.AltitudeUpper)
      /\ e.AltitudeLower = None \/ vol.AltitudeHi = None
           \/ Val(e.AltitudeLower) <= Val(vol.AltitudeHi)
      /\ e.EndTime = None \/ v4d.StartTime = None
           \/ Val(e.EndTime) >= Val(v4d.StartTime)
      /\ e.StartTime = None \/ v4d.EndTime = None
           \/ Val(e.StartTime) <= Val(v4d.EndTime)

\* C4: a search with a non-empty covering succeeds and returns, once each,
\* exactly the stored Operational Intents that match the volume, the boundaries
\* included; none matching, it returns the empty list and no error.
C4_SearchMatches ==
  \A p \in Procs :
    ret[p].op = "search"
    => /\ ret[p].err = "none"
       /\ { ret[p].ents[k].ID : k \in 1..Len(ret[p].ents) }
            = { id \in DOMAIN written : Matches(written[id], ret[p].arg.v4d[1]) }
       /\ \A j, k \in 1..Len(ret[p].ents) :
            ret[p].ents[j].ID = ret[p].ents[k].ID => j = k

\* A search matched an entity whose ends_at is the volume's start and whose
\* altitude_upper is the volume's lower altitude.
C4_Witness ==
  /\ ret["p1"].op = "search"
  /\ \E k \in 1..Len(ret["p1"].ents) :
       /\ ret["p1"].ents[k].EndTime = ret["p1"].arg.v4d[1].StartTime
       /\ ret["p1"].ents[k].EndTime # None
       /\ ret["p1"].ents[k].AltitudeUpper = Val(ret["p1"].arg.v4d[1].SpatialVolume).AltitudeLo
       /\ ret["p1"].ents[k].AltitudeUpper # None

\* The step in which caller p runs DeleteOperationalIntent.
DeleteStep(p) == pc[p] = "idle" /\ ret'[p].op = "delete" /\ ret'[p] # ret[p]

\* C5: where the table exists, deleting an id with no stored row fails with the
\* does-not-exist error and changes nothing, at every attempt; deleting a stored
\* id succeeds and removes its row, and only its row, so that the id has no
\* stored row afterwards.
C5_DeleteNotFound ==
  [][ \A p \in Procs :
        (DeleteStep(p) /\ TableExists)
        => LET id == ret'[p].arg.id
           IN  IF id \notin DOMAIN View(p)
               THEN /\ ret'[p].err = ErrNotExist
                    /\ rows' = rows
                    /\ tx' = tx
               ELSE /\ ret'[p].err = "none"
                    /\ DOMAIN View(p)' = DOMAIN View(p) \ {id}
                    /\ \A i \in DOMAIN View(p)' : View(p)'[i] = View(p)[i] ]_vars

\* A delete failed on an id that has no row while the table holds another row.
C5_Witness ==
  /\ ret["p1"].op = "delete"
  /\ ret["p1"].err = ErrNotExist
  /\ ret["p1"].arg.id \notin DOMAIN rows
  /\ rows # EmptyFn

\* C6: GetDependentOperationalIntents(S) returns, once each, exactly the ids of
\* the stored Operational Intents whose subscription_id is S, and the empty list
\* when there is none.
C6_Dependents ==
  \A p \in Procs :
    (ret[p].op = "dependents" /\ ret[p].err = "none")
    => /\ Range(ret[p].ids)
            = { id \in DOMAIN View(p) : View(p)[id].subscription_id = Some(ret[p].arg.sub) }
       /\ Len(ret[p].ids) = Cardinality(Range(ret[p].ids))

\* The dependents of a subscription were listed while the table held an intent
\* that references it and one that does not.
C6_Witness ==
  /\ ret["p1"].op = "dependents"
  /\ Len(ret["p1"].ids) = 1
  /\ Cardinality(DOMAIN View("p1")) = 2

\* C7: every upsert of an id that has a stored row sets updated_at to a value
\* greater than the one the row had, so that the OVN changes.
C7_UpdatedAtIncreases ==
  [][ \A p \in Procs :
        (UpsertStep(p) /\ UpsertId(p) \in DOMAIN View(p))
        => View(p)'[UpsertId(p)].updated_at > View(p)[UpsertId(p)].updated_at ]_vars

\* The step in which a panic leaves the scope of caller p.
PanicStep(p) == tx[p].open /\ ret'[p].op = "panic" /\ ret'[p] # ret[p]

\* C8: a panic inside a scope that has written rows rolls the transaction back:
\* the scope is closed, its writes are gone and the committed rows are those of
\* before the step; and no step of an open scope changes the committed rows, so
\* that they are the rows of before the scope.
C8_PanicRollsBack ==
  [][ \A p \in Procs :
        /\ (PanicStep(p) /\ tx[p].writes # EmptyFn)
             => /\ ~tx'[p].open
                /\ tx'[p].writes = EmptyFn
                /\ rows' = rows
                /\ View(p)' = rows
        /\ (tx[p].open /\ tx'[p].open) => rows' = rows ]_vars

\* A panic left a scope that had written a row; the scope is closed.
C8_Witness ==
  /\ ret["p1"].op = "panic"
  /\ ret["p1"].ids # << >>
  /\ ~tx["p1"].open

\* C9: a panic inside a scope reaches the caller of the scope: the call does
\* not return normally.
C9_PanicReachesCaller ==
  \A p \in Procs : ret[p].op = "panic" => ret[p].panicked

\* The step in which caller p runs Bootstrap.
BootstrapStep(p) ==
  /\ pc[p] = "idle"
  /\ ret'[p].op = "bootstrap"
  /\ ret[p].op # "bootstrap" \/ schema' # schema

\* C10: Bootstrap succeeds whatever tables exist and leaves the rows as they
\* are; run again on the schema it leaves, it succeeds and changes no table,
\* index or check.
C10_BootstrapIdempotent ==
  [][ \A p \in Procs :
        BootstrapStep(p)
        => /\ ret'[p].err = "none"
           /\ rows' = rows
           /\ BootstrapQuery(schema').ok
           /\ BootstrapQuery(schema').schema = schema' ]_vars

\* Bootstrap ran on a store that held rows and lacked a table it creates.
C10_Witness ==
  /\ ret["p1"].op = "bootstrap"
  /\ ret["p1"].err = "none"
  /\ rows # EmptyFn
  /\ DOMAIN schema = DOMAIN AllTables

\* The tables of the three entity kinds.
EntityTables == {"identification_service_areas", "subscriptions", "scd_operations"}

\* C11: a Bootstrap that succeeds on a store without tables leaves a table for
\* each of the three entity kinds, so that no upsert, get or delete that
\* follows fails on a missing table.
C11_BootstrapCreatesAllTables ==
  [][ \A p \in Procs :
        (BootstrapStep(p) /\ schema = EmptyFn /\ ret'[p].err = "none")
        => /\ EntityTables \subseteq DOMAIN schema'
           /\ TableExists' ]_vars

\* The filter of a search is invalid: it has no spatial volume or no footprint,
\* or the covering of its footprint fails or is empty.
InvalidFilter(v4d) ==
  IF v4d.SpatialVolume = None THEN TRUE
  ELSE IF Val(v4d.SpatialVolume).Footprint = None THEN TRUE
  ELSE \/ Val(Val(v4d.SpatialVolume).Footprint).err
       \/ Len(Val(Val(v4d.SpatialVolume).Footprint).cells) = 0

\* C12: a search whose filter is invalid returns BadRequest and no entity,
\* without reading the table: whether or not the table exists and whether or
\* not the backing store would fail, and without a cell query to follow.
C12_InvalidFilterRejected ==
  \A p \in Procs :
    (ret[p].op = "search" /\ InvalidFilter(ret[p].arg.v4d[1]))
    => /\ ret[p].err = ErrBadRequest
       /\ ret[p].ents = << >>
       /\ pc[p] = "idle"

\* A search whose footprint has an empty covering was rejected on a store that
\* lacks the table, where any query fails.
C12_Witness ==
  /\ ret["p1"].op = "search"
  /\ ret["p1"].err = ErrBadRequest
  /\ ret["p1"].arg.v4d[1].SpatialVolume # None
  /\ Val(ret["p1"].arg.v4d[1].SpatialVolume).Footprint = Some(Footprint(<< >>, FALSE))
  /\ ~TableExists

\* C13: a get of an id that has no stored row, never written or deleted,
\* returns no entity, whether it ends with an error or without one; a get that
\* ends without error on an id that has a row returns the one entity of that
\* id.  The outcome of the first is never the outcome of a read that found the
\* row.
C13_GetAbsentReturnsNothing ==
  \A p \in Procs :
    ret[p].op = "get"
    => /\ ret[p].arg.id \notin DOMAIN View(p) => ret[p].ents = << >>
       /\ (ret[p].arg.id \in DOMAIN View(p) /\ ret[p].err = "none")
            => (Len(ret[p].ents) = 1 /\ ret[p].ents[1].ID = ret[p].arg.id)

\* A get found nothing for an id whose row had been written and deleted.
C13_Witness ==
  /\ ret["p1"].op = "get"
  /\ ret["p1"].ents = << >>
  /\ ret["p1"].arg.id \notin DOMAIN rows
  /\ clock > 0

\* C14: every upsert of an id that has a stored row leaves a stored version
\* greater than the one the row had, whatever version the payload carries.
C14_VersionIncreases ==
  [][ \A p \in Procs :
        (UpsertStep(p) /\ UpsertId(p) \in DOMAIN View(p))
        => View(p)'[UpsertId(p)].version > View(p)[UpsertId(p)].version ]_vars

\* The payload caller p has last written to id once the step is taken.
LastWritten(p, id) ==
  IF tx'[p].open /\ id \in DOMAIN tx'[p].writes THEN tx'[p].writes[id][1].e ELSE written'[id]

\* C15: where the table exists, an upsert without version token succeeds
\* whether or not its id has a row: afterwards the id has the row of the
\* payload, every column of it, and the other rows are as before; and at all
\* times every stored row is the one row of its id and carries the payload
\* last written to that id.
C15_CreateOrReplace ==
  [][ /\ \A p \in Procs :
           (UpsertStep(p) /\ UpsertToken(p) = NoOVN)
           => LET id == UpsertId(p)
              IN  /\ DOMAIN View(p)' = DOMAIN View(p) \cup {id}
                  /\ \A i \in DOMAIN View(p) \ {id} : View(p)'[i] = View(p)[i]
                  /\ ScanRow(View(p)'[id]) = local'[p].payload[1]
                  /\ View(p)'[id] = UpsertRow(LastWritten(p, id), TransactionTimestamp(p))
      /\ DOMAIN rows' = DOMAIN written'
      /\ \A id \in DOMAIN rows' :
           /\ rows'[id].id = id
           /\ rows'[id] = UpsertRow(written'[id], rows'[id].updated_at) ]_vars

\* Two callers have each upserted id 1 without token, outside a scope: the
\* row is the payload of the second, not the one the first got back.
C15_Witness ==
  /\ ret["p1"].op = "upsert" /\ ret["p1"].err = "none"
  /\ ret["p1"].ents[1].USSBaseURL = "u1"
  /\ ret["p2"].op = "upsert" /\ ret["p2"].err = "none"
  /\ ret["p2"].arg.ovn = NoOVN
  /\ ~tx["p1"].open /\ ~tx["p2"].open
  /\ rows[1].url = "u2"
  /\ written[1].USSBaseURL = "u2"

\* C16: the entity a successful upsert returns has the cells of the payload,
\* element by element, and the OVN of the committed row, made of its updated_at
\* and its id and not the token the caller came with; the get of that id that
\* follows at once reads the same OVN.
C16_UpsertReturnsCommitted ==
  [][ \A p \in Procs :
        /\ (ret'[p].op = "upsert" /\ ret'[p].err = "none")
             => LET o == ret'[p].ents[1]
                IN  /\ o.Cells = written'[o.ID].Cells
                    /\ o.OVN = NewOVNFromTime(rows'[o.ID].updated_at, o.ID)
                    /\ o.OVN # ret'[p].arg.ovn
        /\ (ret[p].op = "upsert" /\ ret[p].err = "none" /\ pc'[p] = "get")
             => local'[p].payload[1].OVN = ret[p].ents[1].OVN ]_vars

\* An upsert returned an entity with several cells, not in ascending order, one
\* of them with the top bit set.
C16_Witness ==
  /\ ret["p1"].op = "upsert" /\ ret["p1"].err = "none"
  /\ ret["p1"].ents[1].Cells = << TopCell, 2 >>
  /\ ret["p1"].ents[1].OVN = NewOVNFromTime(clock, 1)
  /\ clock > 1

\* The step in which the get of caller p returns, its cells populated.
GetReturns(p) == pc[p] = "get" /\ pc'[p] = "idle" /\ ret'[p].err = "none"

\* C17: a get that runs outside a scope while others upsert and delete its id
\* returns an entity whose cells, those of the secondary query, are the cells of
\* the core row it fetched, whose OVN it carries, and are not empty.
C17_CellsOfTheFetchedRow ==
  [][ \A p \in Procs :
        (GetReturns(p) /\ ~tx[p].open)
        => /\ ret'[p].ents[1].OVN = local[p].payload[1].OVN
           /\ ret'[p].ents[1].Cells = local[p].payload[1].Cells
           /\ ret'[p].ents[1].Cells # << >> ]_vars

\* C18: a get, a search or a dependents query during which the backing store
\* failed while result rows were iterated ends with an error; and what one of
\* them returns without error is the whole result, never a part of it.
C18_FaultIsAnError ==
  \A p \in Procs :
    ret[p].op \in {"get", "search", "dependents"}
    => /\ ret[p].arg.fault # None => ret[p].err # "none"
       /\ (ret[p].op = "dependents" /\ ret[p].err = "none")
            => Range(ret[p].ids)
                 = { id \in DOMAIN rows : rows[id].subscription_id = Some(ret[p].arg.sub) }
       /\ (ret[p].op = "get" /\ ret[p].err = "none" /\ ret[p].arg.id \in DOMAIN rows)
            => Len(ret[p].ents) = 1
       /\ (ret[p].op = "search" /\ ret[p].err = "none")
            => { ret[p].ents[k].ID : k \in 1..Len(ret[p].ents) }
                 = { id \in DOMAIN written : Matches(written[id], ret[p].arg.v4d[1]) }

\* The cells and the time bounds of the rows tried against the constraints.
CandidateCells == {None, Some(<< >>), Some(<< 1 >>), Some(<< 1, 2 >>)}

CandidateTimes == {None, Some(1), Some(2)}

\* The store is bootstrapped: the tables of the Bootstrap statement exist.
Bootstrapped == DOMAIN BootstrapTables \subseteq DOMAIN schema

\* The step in which an upsert of caller p is rejected.
UpsertRejected(p) ==
  pc[p] = "idle" /\ pc'[p] = "idle" /\ ret'[p].op = "upsert" /\ ret'[p].err # "none"

====
